---- MODULE Spec2Model ----
(***************************************************************************)
(* Model of the static code analyzer: src/checker.py (class Checker) and   *)
(* src/code_analyzer.py (main).                                            *)
(*                                                                         *)
(* A Python str is a sequence of one-character strings, so that the string *)
(* operations of the code (split, strip, startswith, the substring test    *)
(* `in`, the regular expressions) are computed and not assumed.            *)
(***************************************************************************)
EXTENDS Integers, Sequences, FiniteSets, TLC

VARIABLES
    argv,                       \* sys.argv[1]
    fs,                         \* the file system: entry name -> raw lines of the file
    pc,                         \* position of the process: main, for, test, loop, exit, raised
    todo,                       \* paths the for loop of main has still to visit
    path,                       \* Checker.test: path
    lines,                      \* Checker.test: lines (rstripped)
    i,                          \* Checker.test: loop index i
    checked_args,               \* Checker.test: working list of S010
    checked_variables,          \* Checker.test: working list of S011
    checked_default_variables,  \* Checker.test: working list of S012
    out,                        \* standard output: the diagnostics printed so far
    exc,                        \* the uncaught exception that ended the process, or "None"
    inp,                        \* argument of a detector applied on its own
    ret                         \* what that detector returned

vars == <<argv, fs, pc, todo, path, lines, i, checked_args, checked_variables,
          checked_default_variables, out, exc, inp, ret>>

(***************************************************************************)
(* Bounds of the model.                                                    *)
(***************************************************************************)
MaxLines == 3        \* lines of a file drawn from the full menu of lines
MaxBlankLines == 5   \* lines of a file drawn from the blank-run menu
MaxDirLines == 2     \* lines of each file of the directory
MaxLen == 4          \* length of a line given to check_semicolons on its own
MaxNameLen == 4      \* length of an identifier given to the snake_case test

(***************************************************************************)
(* Python str operations.                                                  *)
(***************************************************************************)
\* The characters of the model in code point order (Python compares str by code point).
CharOrder ==
    <<" ", "#", "(", ")", ",", ".", "/", "0", "1", "2", ":", ";", "=",
      "B", "D", "F", "O", "T", "W", "[", "]", "_",
      "a", "b", "c", "d", "e", "f", "g", "h", "i", "k", "l", "o", "p", "r", "s",
      "t", "w", "x", "y">>

Ord(c) == CHOOSE k \in 1..Len(CharOrder) : CharOrder[k] = c

UpperChars == {"B", "D", "F", "O", "T", "W"}
LowerChars == {"a", "b", "c", "d", "e", "f", "g", "h", "i", "k", "l", "o", "p", "r",
               "s", "t", "w", "x", "y"}
DigitChars == {"0", "1", "2"}
WordChars == UpperChars \cup LowerChars \cup DigitChars \cup {"_"}

\* str.casefold / lower of one character
LowerOf(c) ==
    CASE c = "B" -> "b" [] c = "D" -> "d" [] c = "F" -> "f"
      [] c = "O" -> "o" [] c = "T" -> "t" [] c = "W" -> "w"
      [] OTHER -> c

casefold(s) == [k \in 1..Len(s) |-> LowerOf(s[k])]

\* sub in s
Contains(sub, s) ==
    \E k \in 0..(Len(s) - Len(sub)) : SubSeq(s, k + 1, k + Len(sub)) = sub

startswith(s, p) == Len(p) <= Len(s) /\ SubSeq(s, 1, Len(p)) = p
endswith(s, p) == Len(p) <= Len(s) /\ SubSeq(s, Len(s) - Len(p) + 1, Len(s)) = p

\* number of leading / trailing whitespace characters
LeadingSpaces(s) ==
    IF \A k \in 1..Len(s) : s[k] = " " THEN Len(s)
    ELSE (CHOOSE k \in 1..Len(s) : s[k] # " " /\ \A m \in 1..(k - 1) : s[m] = " ") - 1

TrailingSpaces(s) ==
    IF \A k \in 1..Len(s) : s[k] = " " THEN Len(s)
    ELSE Len(s) - (CHOOSE k \in 1..Len(s) : s[k] # " " /\ \A m \in (k + 1)..Len(s) : s[m] = " ")

lstrip(s) == SubSeq(s, LeadingSpaces(s) + 1, Len(s))
rstrip(s) == SubSeq(s, 1, Len(s) - TrailingSpaces(s))
strip(s) == lstrip(rstrip(s))

\* s.split("#")[0]: the text before the first '#', the whole of s when it has none
SplitHashHead(s) ==
    IF \E k \in 1..Len(s) : s[k] = "#"
    THEN SubSeq(s, 1, (CHOOSE k \in 1..Len(s) : s[k] = "#" /\ \A m \in 1..(k - 1) : s[m] # "#") - 1)
    ELSE s

\* re.split(' +', s): the pieces of s between its runs of spaces
RECURSIVE re_split_spaces(_)
re_split_spaces(s) ==
    IF ~ \E k \in 1..Len(s) : s[k] = " " THEN <<s>>
    ELSE LET first == CHOOSE k \in 1..Len(s) : s[k] = " " /\ \A m \in 1..(k - 1) : s[m] # " "
             rest == SubSeq(s, first, Len(s))
         IN  <<SubSeq(s, 1, first - 1)>> \o re_split_spaces(lstrip(rest))

\* re.sub(r'\W+', '', s)
IsWordChar(c) == c \in WordChars
re_sub_nonword(s) == SelectSeq(s, IsWordChar)

\* os.path.join(a, b)
path_join(a, b) == a \o <<"/">> \o b

\* a < b for str
RECURSIVE StrLess(_, _)
StrLess(a, b) ==
    IF Len(b) = 0 THEN FALSE
    ELSE IF Len(a) = 0 THEN TRUE
    ELSE IF a[1] # b[1] THEN Ord(a[1]) < Ord(b[1])
    ELSE StrLess(Tail(a), Tail(b))

\* sorted(S) with the order of the comparison reversed
RECURSIVE sorted_reversed(_)
sorted_reversed(S) ==
    IF S = {} THEN <<>>
    ELSE LET greatest == CHOOSE a \in S : \A b \in S \ {a} : StrLess(b, a)
         IN  <<greatest>> \o sorted_reversed(S \ {greatest})

\* sorted(S) for a collection of distinct str
RECURSIVE sorted(_)
sorted(S) ==
    IF S = {} THEN <<>>
    ELSE LET least == CHOOSE a \in S : \A b \in S \ {a} : StrLess(a, b)
         IN  <<least>> \o sorted(S \ {least})

(***************************************************************************)
(* Python values a detector can produce.                                   *)
(***************************************************************************)
\* bool(v) for the values "True", "False" and "None"
Truthy(v) == v = "True"
Bool(b) == IF b THEN "True" ELSE "False"

\* the string s as a candidate of a working list, and a FunctionDef node as one
Str(s) == [type |-> "str", name |-> s, lineno |-> 0]
Node(f) == [type |-> "FunctionDef", name |-> f.name, lineno |-> f.lineno]

(***************************************************************************)
(* Line detectors S001..S009 (src/checker.py:22-75).                       *)
(***************************************************************************)
\* S001
check_length(line) == Len(line) > 79

\* S002
check_indentation(line) == LeadingSpaces(line) % 4 # 0

\* S003: "True", "False", "None" (no return statement reached) or "IndexError"
check_semicolons(line) ==
    LET code == SplitHashHead(line)
    IN  IF Len(code) > 0
        THEN IF Len(strip(code)) = 0 THEN "IndexError"
             ELSE Bool(strip(code)[Len(strip(code))] = ";")
        ELSE "None"

\* S004
check_inline_comments(line) ==
    /\ ~ Contains(<<" ", " ", "#">>, line)
    /\ Contains(<<"#">>, line)
    /\ line[1] # "#"

\* S005
check_todos(line) ==
    \/ Contains(<<"#", "t", "o", "d", "o">>, casefold(line))
    \/ Contains(<<"#", " ", "t", "o", "d", "o">>, casefold(line))

\* S006, with the 0-based index i of the code: "True", "False" or "None"
check_blank_lines(lns, idx) ==
    IF idx > 2
    THEN Bool(/\ SubSeq(lns, idx - 2, idx) = <<<<>>, <<>>, <<>>>>
              /\ lns[idx + 1] # <<>>)
    ELSE "None"

\* re.match of kw followed by n or more whitespace characters, and of kw followed by
\* one or more whitespace characters and one character of the class `allowed`
MatchKwSpaces(s, kw, n) ==
    /\ startswith(s, kw)
    /\ Len(s) >= Len(kw) + n
    /\ \A k \in 1..n : s[Len(kw) + k] = " "

MatchKwSpacesThen(s, kw, allowed) ==
    /\ startswith(s, kw)
    /\ \E n \in 1..(Len(s) - Len(kw) - 1) :
          /\ \A k \in 1..n : s[Len(kw) + k] = " "
          /\ s[Len(kw) + n + 1] \in allowed

KwClass == <<"c", "l", "a", "s", "s">>
KwDef == <<"d", "e", "f">>

\* S007
check_spaces(line) ==
    /\ Contains(KwClass, line) \/ Contains(KwDef, line)
    /\ \/ MatchKwSpaces(lstrip(line), KwClass, 2)
       \/ MatchKwSpaces(lstrip(line), KwDef, 2)

\* the character classes [A-Z] and [^A-Z]
ClassUpper == UpperChars
ClassNotUpper == {CharOrder[k] : k \in 1..Len(CharOrder)} \ UpperChars

\* S008
check_class_name(line) ==
    Contains(KwClass, line) /\ ~ MatchKwSpacesThen(line, KwClass, ClassUpper)

\* S009
check_func_name(line) ==
    Contains(KwDef, line) /\ ~ MatchKwSpacesThen(lstrip(line), KwDef, ClassNotUpper)

(***************************************************************************)
(* The lines the files of the model are made of, and what ast.parse makes  *)
(* of each (the FunctionDef and Name nodes of the line).                   *)
(***************************************************************************)
\* "x = 1; # TODO"
L_todo == <<"x", " ", "=", " ", "1", ";", " ", "#", " ", "T", "O", "D", "O">>
\* " # c"
L_comment == <<" ", "#", " ", "c">>
\* "def f(Ba, Wo): pass"
L_def_args ==
    <<"d", "e", "f", " ", "f", "(", "B", "a", ",", " ", "W", "o", ")", ":", " ",
      "p", "a", "s", "s">>
\* "Ba = 1"
L_assign == <<"B", "a", " ", "=", " ", "1">>
\* "def g(x=[]): pass"
L_def_list ==
    <<"d", "e", "f", " ", "g", "(", "x", "=", "[", "]", ")", ":", " ", "p", "a", "s", "s">>
\* "def h(x=list()): pass"
L_def_call ==
    <<"d", "e", "f", " ", "h", "(", "x", "=", "l", "i", "s", "t", "(", ")", ")", ":", " ",
      "p", "a", "s", "s">>
\* "def k(x=a.b()): pass"
L_def_attr ==
    <<"d", "e", "f", " ", "k", "(", "x", "=", "a", ".", "b", "(", ")", ")", ":", " ",
      "p", "a", "s", "s">>
\* "x = ("
L_syntax == <<"x", " ", "=", " ", "(">>
\* "x.__class__"
L_attr == <<"x", ".", "_", "_", "c", "l", "a", "s", "s", "_", "_">>
\* "" and "  " (a line of whitespace only) and "x = 1"
L_blank == <<>>
L_spaces == <<" ", " ">>
L_stmt == <<"x", " ", "=", " ", "1">>
\* "class  foo: Ba = 1; # TODO defooo...o", 80 characters long
L_many ==
    <<"c", "l", "a", "s", "s", " ", " ", "f", "o", "o", ":", " ", "B", "a", " ", "=", " ",
      "1", ";", " ", "#", " ", "T", "O", "D", "O", " ", "d", "e", "f">>
    \o [k \in 1..50 |-> "o"]

N_x == <<"x">>
N_Ba == <<"B", "a">>
N_Wo == <<"W", "o">>
N_list == <<"l", "i", "s", "t">>
N_set == <<"s", "e", "t">>
N_dict == <<"d", "i", "c", "t">>

Default(type, func_type, func_id) ==
    [type |-> type, func_type |-> func_type, func_id |-> func_id]
Mutable(type) == Default(type, "", <<>>)
Func(name, args, defaults) == [name |-> name, args |-> args, defaults |-> defaults]
Name(id, ctx) == [id |-> id, ctx |-> ctx]
Parsed(funcs, names) == [ok |-> TRUE, funcs |-> funcs, names |-> names]

\* ast.parse on one line of the menu; ok = FALSE is a SyntaxError
ParseLine(text) ==
    CASE text = L_todo -> Parsed(<<>>, <<Name(N_x, "Store")>>)
      [] text = L_stmt -> Parsed(<<>>, <<Name(N_x, "Store")>>)
      [] text = L_assign -> Parsed(<<>>, <<Name(N_Ba, "Store")>>)
      [] text = L_attr -> Parsed(<<>>, <<Name(N_x, "Load")>>)
      [] text = L_many -> Parsed(<<>>, <<Name(N_Ba, "Store")>>)
      [] text = L_def_args -> Parsed(<<Func(<<"f">>, <<N_Ba, N_Wo>>, <<>>)>>, <<>>)
      [] text = L_def_list ->
            Parsed(<<Func(<<"g">>, <<N_x>>, <<Mutable("List")>>)>>, <<>>)
      [] text = L_def_call ->
            Parsed(<<Func(<<"h">>, <<N_x>>, <<Default("Call", "Name", N_list)>>)>>,
                   <<Name(N_list, "Load")>>)
      [] text = L_def_attr ->
            Parsed(<<Func(<<"k">>, <<N_x>>, <<Default("Call", "Attribute", <<>>)>>)>>,
                   <<Name(<<"a">>, "Load")>>)
      [] text = L_syntax -> [ok |-> FALSE, funcs |-> <<>>, names |-> <<>>]
      [] OTHER -> Parsed(<<>>, <<>>)

\* the nodes of a sequence of function definitions, each with its line number
WithLine(funcs, n) ==
    [k \in 1..Len(funcs) |->
        [name |-> funcs[k].name, args |-> funcs[k].args,
         defaults |-> funcs[k].defaults, lineno |-> n]]

RECURSIVE Flatten(_)
Flatten(seqs) == IF seqs = <<>> THEN <<>> ELSE Head(seqs) \o Flatten(Tail(seqs))

\* ast_processing: the FunctionDef and the Name nodes of the tree of the file, or
\* a SyntaxError when ast.parse rejects it
ast_processing(content) ==
    IF \E n \in 1..Len(content) : ~ ParseLine(content[n]).ok
    THEN [raised |-> "SyntaxError", FunctionDef |-> <<>>, Name |-> <<>>]
    ELSE [raised |-> "None",
          FunctionDef |->
              Flatten([n \in 1..Len(content) |-> WithLine(ParseLine(content[n]).funcs, n)]),
          Name |-> Flatten([n \in 1..Len(content) |-> ParseLine(content[n]).names])]

(***************************************************************************)
(* Tree detectors S010..S012 (src/checker.py:77-118).                      *)
(***************************************************************************)
\* the strings the pattern "(_{,2})?[a-z]+(_[a-z]*)*(_{,2})?" matches in full
SnakeBody(s) ==
    /\ Len(s) >= 1
    /\ s[1] \in LowerChars
    /\ \A k \in 1..Len(s) : s[k] \in LowerChars \cup {"_"}

SnakePattern(s) ==
    \E lead \in 0..2, trail \in 0..2 :
        /\ lead + trail <= Len(s)
        /\ \A k \in 1..lead : s[k] = "_"
        /\ \A k \in (Len(s) - trail + 1)..Len(s) : s[k] = "_"
        /\ SnakeBody(SubSeq(s, lead + 1, Len(s) - trail))

\* re.match(pattern, s) is not None: the pattern matches some prefix of s
re_match_snake(s) == \E n \in 0..Len(s) : SnakePattern(SubSeq(s, 1, n))

Range(seq) == {seq[k] : k \in 1..Len(seq)}

\* S010
check_argument_name(objects) ==
    {Str(a) : a \in {b \in UNION {Range(f.args) : f \in Range(objects.FunctionDef)} :
                        ~ re_match_snake(b)}}

\* S011
check_variable_name(objects) ==
    {Str(v.id) : v \in {w \in Range(objects.Name) :
                            w.ctx = "Store" /\ ~ re_match_snake(w.id)}}

\* S012: def_arg.func.id raises AttributeError when the called object is no Name
check_mutable_value(objects) ==
    LET functions == Range(objects.FunctionDef)
    IN  IF \E f \in functions : \E d \in Range(f.defaults) :
              d.type = "Call" /\ d.func_type # "Name"
        THEN [raised |-> "AttributeError", warnings |-> {}]
        ELSE [raised |-> "None",
              warnings |->
                  {Str(f.name) : f \in {g \in functions : \E d \in Range(g.defaults) :
                                            d.type \in {"List", "Set", "Dict"}}}
                  \cup
                  {Node(f) : f \in {g \in functions : \E d \in Range(g.defaults) :
                                        /\ d.type = "Call"
                                        /\ d.func_id \in {N_set, N_list, N_dict}}}]

(***************************************************************************)
(* Diagnostics (src/checker.py:7-20 and the print calls of Checker.test).  *)
(***************************************************************************)
Codes == <<"S001", "S002", "S003", "S004", "S005", "S006", "S007", "S008", "S009",
           "S010", "S011", "S012">>

MESSAGE_CODES ==
    [S001 |-> "Too long",
     S002 |-> "Indentation is not a multiple of four",
     S003 |-> "Unnecessary semicolon after a statement",
     S004 |-> "Less than two spaces before inline comments",
     S005 |-> "TODO found",
     S006 |-> "More than two blank lines preceding a code line",
     S007 |-> "Too many spaces after {}",
     S008 |-> "Class name {} should be written in CamelCase",
     S009 |-> "Function name {} should be written in snake_case",
     S010 |-> "Argument name arg_name should be written in snake_case",
     S011 |-> "Variable var_name should be written in snake_case",
     S012 |-> "The default argument value is mutable"]

\* one printed line "<path>: Line <n>: <code> <message>", arg filling the {} of the message
Diag(p, n, code, arg) ==
    [path |-> p, line |-> n, code |-> code, msg |-> MESSAGE_CODES[code], arg |-> arg]

Quoted(s) == <<"'">> \o s \o <<"'">>

(***************************************************************************)
(* The body of the loop of Checker.test for one line                       *)
(* (src/checker.py:151-195).                                               *)
(***************************************************************************)
\* lines 151-173: the prints of S001..S009 on line idx, up to the first exception
LineDetectors(p, lns, idx) ==
    LET line == lns[idx + 1]
        n == idx + 1
        If(b, code, arg) == IF b THEN <<Diag(p, n, code, arg)>> ELSE <<>>
        name == re_sub_nonword(re_split_spaces(line)[2])
        constructor == IF startswith(line, KwClass) THEN Quoted(KwClass) ELSE Quoted(KwDef)
        upto2 == If(check_length(line), "S001", <<>>)
                 \o If(check_indentation(line), "S002", <<>>)
        upto7 == upto2
                 \o If(Truthy(check_semicolons(line)), "S003", <<>>)
                 \o If(check_inline_comments(line), "S004", <<>>)
                 \o If(check_todos(line), "S005", <<>>)
                 \o If(Truthy(check_blank_lines(lns, idx)), "S006", <<>>)
                 \o If(check_spaces(line), "S007", constructor)
        upto8 == upto7 \o If(check_class_name(line), "S008", name)
        upto9 == upto8 \o If(check_func_name(line), "S009", name)
    IN  IF check_semicolons(line) = "IndexError"
        THEN [prints |-> upto2, raised |-> "IndexError"]
        ELSE IF check_class_name(line) /\ Len(re_split_spaces(line)) < 2
        THEN [prints |-> upto7, raised |-> "IndexError"]
        ELSE IF check_func_name(line) /\ Len(re_split_spaces(line)) < 2
        THEN [prints |-> upto8, raised |-> "IndexError"]
        ELSE [prints |-> upto9, raised |-> "None"]

\* list.remove(x): lst without its first element equal to x
Remove(lst, x) ==
    LET at == CHOOSE k \in 1..Len(lst) : lst[k] = x /\ \A m \in 1..(k - 1) : lst[m] # x
    IN  SubSeq(lst, 1, at - 1) \o SubSeq(lst, at + 1, Len(lst))

\* a while loop that stops at its first match (a break after the remove)
RECURSIVE MatchLoopFirst(_, _, _, _, _, _)
MatchLoopFirst(p, n, code, lst, j, line) ==
    IF ~ (j < Len(lst))
    THEN [lst |-> lst, prints |-> <<>>, raised |-> "None"]
    ELSE IF lst[j + 1].type # "str"
    THEN [lst |-> lst, prints |-> <<>>, raised |-> "TypeError"]
    ELSE IF Contains(lst[j + 1].name, line)
    THEN [lst |-> Remove(lst, lst[j + 1]), prints |-> <<Diag(p, n, code, <<>>)>>,
          raised |-> "None"]
    ELSE MatchLoopFirst(p, n, code, lst, j + 1, line)

\* one of the three while loops of lines 175-195, from index j on; `x in line` raises
\* TypeError when x is not a str
RECURSIVE MatchLoop(_, _, _, _, _, _)
MatchLoop(p, n, code, lst, j, line) ==
    IF ~ (j < Len(lst))
    THEN [lst |-> lst, prints |-> <<>>, raised |-> "None"]
    ELSE IF lst[j + 1].type # "str"
    THEN [lst |-> lst, prints |-> <<>>, raised |-> "TypeError"]
    ELSE IF Contains(lst[j + 1].name, line)
    THEN LET rest == MatchLoop(p, n, code, Remove(lst, lst[j + 1]), j, line)
         IN  [rest EXCEPT !.prints = <<Diag(p, n, code, <<>>)>> \o @]
    ELSE MatchLoop(p, n, code, lst, j + 1, line)

\* the whole body for line idx: what it prints, the working lists it leaves and the
\* exception it ends with ("None" when it runs to its end)
LineBody(p, lns, idx, args, variables, defaults) ==
    LET line == lns[idx + 1]
        det == LineDetectors(p, lns, idx)
        m10 == MatchLoop(p, idx + 1, "S010", args, 0, line)
        m11 == MatchLoop(p, idx + 1, "S011", variables, 0, line)
        m12 == MatchLoop(p, idx + 1, "S012", defaults, 0, line)
    IN  IF det.raised # "None"
        THEN [prints |-> det.prints, args |-> args, variables |-> variables,
              defaults |-> defaults, raised |-> det.raised]
        ELSE IF m10.raised # "None"
        THEN [prints |-> det.prints \o m10.prints, args |-> m10.lst,
              variables |-> variables, defaults |-> defaults, raised |-> m10.raised]
        ELSE IF m11.raised # "None"
        THEN [prints |-> det.prints \o m10.prints \o m11.prints, args |-> m10.lst,
              variables |-> m11.lst, defaults |-> defaults, raised |-> m11.raised]
        ELSE [prints |-> det.prints \o m10.prints \o m11.prints \o m12.prints,
              args |-> m10.lst, variables |-> m11.lst, defaults |-> m12.lst,
              raised |-> m12.raised]

(***************************************************************************)
(* Checker.test (src/checker.py:136-195), one file.                        *)
(***************************************************************************)
\* list(S): the elements of the set S in the order its iteration yields, which the
\* hashes of the elements decide
ListsOf(S) ==
    {l \in [1..Cardinality(S) -> S] : \A a, b \in 1..Cardinality(S) : a # b => l[a] # l[b]}

\* f.readlines() followed by the rstrip of each line
ReadLines(content) == [n \in 1..Len(content) |-> rstrip(content[n])]

\* lines 139-148 with an exception: ast.parse rejects the file, or check_mutable_value
\* meets a called object without id
test_open_raise ==
    /\ pc = "test"
    /\ LET objects == ast_processing(fs[path])
       IN  /\ \/ objects.raised # "None"
              \/ check_mutable_value(objects).raised # "None"
           /\ exc' = IF objects.raised # "None" THEN objects.raised
                     ELSE check_mutable_value(objects).raised
           \* lines 146-147 have run when line 148 raises
           /\ IF objects.raised # "None"
              THEN UNCHANGED <<checked_args, checked_variables>>
              ELSE /\ checked_args' \in ListsOf(check_argument_name(objects))
                   /\ checked_variables' \in ListsOf(check_variable_name(objects))
    /\ lines' = ReadLines(fs[path])
    /\ pc' = "raised"
    /\ UNCHANGED <<argv, fs, todo, path, i, checked_default_variables, out, inp, ret>>

\* lines 139-148: read the lines, parse the tree, build the three working lists
test_open ==
    /\ pc = "test"
    /\ LET objects == ast_processing(fs[path])
       IN  /\ objects.raised = "None"
           /\ check_mutable_value(objects).raised = "None"
           /\ checked_args' \in ListsOf(check_argument_name(objects))
           /\ checked_variables' \in ListsOf(check_variable_name(objects))
           /\ checked_default_variables' \in ListsOf(check_mutable_value(objects).warnings)
    /\ lines' = ReadLines(fs[path])
    /\ i' = 0
    /\ pc' = "loop"
    /\ UNCHANGED <<argv, fs, todo, path, out, exc, inp, ret>>

\* lines 150-195: one pass of the for loop that runs to its end
test_line ==
    /\ pc = "loop"
    /\ i < Len(lines)
    /\ LET body == LineBody(path, lines, i, checked_args, checked_variables,
                            checked_default_variables)
       IN  /\ body.raised = "None"
           /\ out' = out \o body.prints
           /\ checked_args' = body.args
           /\ checked_variables' = body.variables
           /\ checked_default_variables' = body.defaults
    /\ i' = i + 1
    /\ UNCHANGED <<argv, fs, pc, todo, path, lines, exc, inp, ret>>

\* lines 150-195: one pass of the for loop that an exception ends; nothing catches it
test_line_raise ==
    /\ pc = "loop"
    /\ i < Len(lines)
    /\ LET body == LineBody(path, lines, i, checked_args, checked_variables,
                            checked_default_variables)
       IN  /\ body.raised # "None"
           /\ out' = out \o body.prints
           /\ checked_args' = body.args
           /\ checked_variables' = body.variables
           /\ checked_default_variables' = body.defaults
           /\ exc' = body.raised
    /\ pc' = "raised"
    /\ UNCHANGED <<argv, fs, todo, path, lines, i, inp, ret>>

\* the loop is over: Checker.test returns to main
test_return ==
    /\ pc = "loop"
    /\ i = Len(lines)
    /\ pc' = IF endswith(argv, <<".", "p", "y">>) THEN "exit" ELSE "for"
    /\ UNCHANGED <<argv, fs, todo, path, lines, i, checked_args, checked_variables,
                   checked_default_variables, out, exc, inp, ret>>

(***************************************************************************)
(* main (src/code_analyzer.py:7-17).                                       *)
(***************************************************************************)
\* os.listdir(d)
listdir(d) ==
    {SubSeq(q, Len(d) + 2, Len(q)) : q \in {r \in DOMAIN fs : startswith(r, d \o <<"/">>)}}

\* re.match("test_[0-9]*.py", file)
re_match_test(file) ==
    /\ startswith(file, <<"t", "e", "s", "t", "_">>)
    /\ \E k \in 0..(Len(file) - 8) :
          /\ \A m \in 1..k : file[5 + m] \in DigitChars
          /\ file[5 + k + 2] = "p"
          /\ file[5 + k + 3] = "y"

\* line 10: the path names one file
main_file ==
    /\ pc = "main"
    /\ endswith(argv, <<".", "p", "y">>)
    /\ path' = argv
    /\ pc' = "test"
    /\ UNCHANGED <<argv, fs, todo, lines, i, checked_args, checked_variables,
                   checked_default_variables, out, exc, inp, ret>>

\* lines 14-16: the matching entries of the directory, sorted
main_dir ==
    /\ pc = "main"
    /\ ~ endswith(argv, <<".", "p", "y">>)
    /\ todo' = LET tests_list == sorted(listdir(argv))
               IN  [k \in 1..Len(SelectSeq(tests_list, re_match_test)) |->
                        path_join(argv, SelectSeq(tests_list, re_match_test)[k])]
    /\ pc' = "for"
    /\ UNCHANGED <<argv, fs, path, lines, i, checked_args, checked_variables,
                   checked_default_variables, out, exc, inp, ret>>

\* line 17: the next file of the for loop
main_for ==
    /\ pc = "for"
    /\ todo # <<>>
    /\ path' = Head(todo)
    /\ todo' = Tail(todo)
    /\ pc' = "test"
    /\ UNCHANGED <<argv, fs, lines, i, checked_args, checked_variables,
                   checked_default_variables, out, exc, inp, ret>>

\* the for loop is over: main returns
main_return ==
    /\ pc = "for"
    /\ todo = <<>>
    /\ pc' = "exit"
    /\ UNCHANGED <<argv, fs, todo, path, lines, i, checked_args, checked_variables,
                   checked_default_variables, out, exc, inp, ret>>

(***************************************************************************)
(* The runs of the program: one file given by its path, or a directory.    *)
(***************************************************************************)
SeqsUpTo(S, n) == UNION {[1..m -> S] : m \in 0..n}

FullMenu == {L_todo, L_comment, L_def_args, L_assign, L_def_list, L_def_call,
             L_def_attr, L_syntax, L_attr}
BlankMenu == {L_blank, L_spaces, L_stmt, L_comment}
DirMenu == {L_many, L_comment, L_syntax}

FilePath == <<"t", ".", "p", "y">>
DirPath == <<"t", "e", "s", "t", "s">>
Test1 == <<"t", "e", "s", "t", "_", "1", ".", "p", "y">>
Test2 == <<"t", "e", "s", "t", "_", "2", ".", "p", "y">>
Other == <<"o", "t", "h", "e", "r", ".", "p", "y">>

InitRest ==
    /\ pc = "main"
    /\ todo = <<>>
    /\ path = <<>>
    /\ lines = <<>>
    /\ i = 0
    /\ checked_args = <<>>
    /\ checked_variables = <<>>
    /\ checked_default_variables = <<>>
    /\ out = <<>>
    /\ exc = "None"
    /\ inp = <<>>
    /\ ret = "None"

InitFile ==
    /\ argv = FilePath
    /\ \E content \in SeqsUpTo(FullMenu, MaxLines) \cup SeqsUpTo(BlankMenu, MaxBlankLines) :
          fs = (FilePath :> content)
    /\ InitRest

InitDir ==
    /\ argv = DirPath
    /\ \E c1, c2 \in SeqsUpTo(DirMenu, MaxDirLines) :
          fs = (path_join(DirPath, Test2) :> c2) @@ (path_join(DirPath, Other) :> <<L_syntax>>)
               @@ (path_join(DirPath, Test1) :> c1)
    /\ InitRest

Init == InitFile \/ InitDir

Next ==
    \/ main_file
    \/ main_dir
    \/ main_for
    \/ main_return
    \/ test_open
    \/ test_open_raise
    \/ test_line
    \/ test_line_raise
    \/ test_return

Spec == Init /\ [][Next]_vars

(***************************************************************************)
(* A detector applied on its own to one argument.                          *)
(***************************************************************************)
RstrippedLines(n) ==
    {l \in SeqsUpTo({" ", "#", ";", "x"}, n) : Len(l) = 0 \/ l[Len(l)] # " "}

Identifiers(n) == SeqsUpTo({"a", "B", "_"}, n) \ {<<>>}

InitDetector(inputs) ==
    /\ inp \in inputs
    /\ pc = "call"
    /\ ret = "unset"
    /\ argv = <<>>
    /\ fs = <<>>
    /\ todo = <<>>
    /\ path = <<>>
    /\ lines = <<>>
    /\ i = 0
    /\ checked_args = <<>>
    /\ checked_variables = <<>>
    /\ checked_default_variables = <<>>
    /\ out = <<>>
    /\ exc = "None"

Return(value, at) ==
    /\ pc = "call"
    /\ ret' = value
    /\ pc' = at
    /\ UNCHANGED <<argv, fs, todo, path, lines, i, checked_args, checked_variables,
                   checked_default_variables, out, exc, inp>>

\* Checker.check_semicolons(inp), inp one rstripped line
call_check_semicolons == Return(check_semicolons(inp), "returned")

\* Checker.check_argument_name on the tree of "def f(<inp>): pass"
call_check_argument_name ==
    Return(check_argument_name(
               [raised |-> "None",
                FunctionDef |-> WithLine(<<Func(<<"f">>, <<inp>>, <<>>)>>, 1),
                Name |-> <<>>]),
           "returned_argument")

\* Checker.check_variable_name on the tree of "<inp> = 1"
call_check_variable_name ==
    Return(check_variable_name(
               [raised |-> "None", FunctionDef |-> <<>>, Name |-> <<Name(inp, "Store")>>]),
           "returned_variable")

InitSemicolons == InitDetector(RstrippedLines(MaxLen))
NextSemicolons == call_check_semicolons
SpecSemicolons == InitSemicolons /\ [][NextSemicolons]_vars

InitNames == InitDetector(Identifiers(MaxNameLen))
NextNames == call_check_argument_name \/ call_check_variable_name
SpecNames == InitNames /\ [][NextNames]_vars

(***************************************************************************)
(* What the claims speak of.                                               *)
(***************************************************************************)
CodeRank(c) == CHOOSE k \in 1..Len(Codes) : Codes[k] = c
TreeCodes == {"S010", "S011", "S012"}
LoopExceptions == {"IndexError", "TypeError"}

\* path, lines and i belong to the file under check, whose tree was built
InTest ==
    /\ path # <<>>
    /\ \/ pc \in {"loop", "for", "exit"}
       \/ pc = "raised" /\ exc \in LoopExceptions

\* the loop over the lines of that file is over: it returned, or an exception ended it
FileDone == InTest /\ pc # "loop"

\* the diagnostics printed for the file under check
IsOfPath(d) == d.path = path
DiagsOfPath == SelectSeq(out, IsOfPath)

CountAt(n, code) ==
    Cardinality({k \in 1..Len(out) :
                    out[k].path = path /\ out[k].line = n /\ out[k].code = code})

\* the diagnostics of a code printed for the file under check
Printed(code) == Cardinality({k \in 1..Len(out) : out[k].path = path /\ out[k].code = code})

Tree == ast_processing(fs[path])

\* the candidate names of a rule: the strings of its candidate set
Candidates(code) ==
    LET set == CASE code = "S010" -> check_argument_name(Tree)
                 [] code = "S011" -> check_variable_name(Tree)
                 [] code = "S012" -> check_mutable_value(Tree).warnings
    IN  {c.name : c \in {d \in set : d.type = "str"}}

\* the number of the first line that contains the name, 0 when no line does
FirstLine(name) ==
    IF \E n \in 1..Len(lines) : Contains(name, lines[n])
    THEN CHOOSE n \in 1..Len(lines) :
            Contains(name, lines[n]) /\ \A m \in 1..(n - 1) : ~ Contains(name, lines[m])
    ELSE 0

Expected(code, n) == Cardinality({c \in Candidates(code) : FirstLine(c) = n})

\* the for loop of Checker.test from line idx on, with the working lists given: what
\* it prints and the exception it ends with
RECURSIVE RunLines(_, _, _, _, _, _)
RunLines(p, lns, idx, args, variables, defaults) ==
    IF idx = Len(lns) THEN [prints |-> <<>>, raised |-> "None"]
    ELSE LET body == LineBody(p, lns, idx, args, variables, defaults)
         IN  IF body.raised # "None"
             THEN [prints |-> body.prints, raised |-> body.raised]
             ELSE LET rest == RunLines(p, lns, idx + 1, body.args, body.variables,
                                       body.defaults)
                  IN  [rest EXCEPT !.prints = body.prints \o @]

\* C1: the output is ordered by (file, line, code): paths never decrease in str order,
\* so no diagnostic of one file stands between those of another; within a file line
\* numbers never decrease; within a line codes never decrease in the order S001..S012.
C1_OutputOrdered ==
    \A k \in 1..(Len(out) - 1) :
        LET a == out[k]
            b == out[k + 1]
        IN  \/ StrLess(a.path, b.path)
            \/ /\ a.path = b.path
               /\ \/ a.line < b.line
                  \/ a.line = b.line /\ CodeRank(a.code) <= CodeRank(b.code)

\* C1 witness: the output holds diagnostics of two files, of two lines of one file and
\* of two codes of one line.
C1_Witness ==
    /\ \E k \in 1..(Len(out) - 1) : out[k].path # out[k + 1].path
    /\ \E k \in 1..(Len(out) - 1) :
          out[k].path = out[k + 1].path /\ out[k].line < out[k + 1].line
    /\ \E k \in 1..(Len(out) - 1) :
          /\ out[k].path = out[k + 1].path
          /\ out[k].line = out[k + 1].line
          /\ CodeRank(out[k].code) < CodeRank(out[k + 1].code)

\* C2: when the check of a file is over, every candidate name of S010, S011 and S012
\* has produced exactly one diagnostic, at the first line that contains the name: each
\* line holds as many diagnostics of the code as there are candidates whose first
\* line it is, and every candidate has such a line.
C2_ExactlyOncePerCandidate ==
    FileDone =>
        \A code \in TreeCodes :
            /\ \A c \in Candidates(code) : FirstLine(c) >= 1
            /\ \A n \in 1..Len(lines) : CountAt(n, code) = Expected(code, n)

\* C2, for the checks that return: every candidate name has produced exactly one
\* diagnostic, at the first line that contains it.
C2_WhenTheCheckReturns ==
    FileDone /\ exc = "None" =>
        \A code \in TreeCodes :
            /\ \A c \in Candidates(code) : FirstLine(c) >= 1
            /\ \A n \in 1..Len(lines) : CountAt(n, code) = Expected(code, n)

\* C3: a check that fails has printed no diagnostic for its file.
C3_NoPartialOutput ==
    pc = "raised" => \A k \in 1..Len(out) : out[k].path # path

\* C3, for the failures before the loop (ast.parse rejects the file, or
\* check_mutable_value raises): nothing has been printed for the file.
C3_WhenTheOpenFails ==
    pc = "raised" /\ exc \notin LoopExceptions => \A k \in 1..Len(out) : out[k].path # path

\* C4: when the process is over, no matched file of the directory is left unchecked:
\* a failure of one file does not keep the later ones from being checked.
C4_LaterFilesChecked ==
    pc \in {"exit", "raised"} => todo = <<>>

HasMutableDefault(f) ==
    \E d \in Range(f.defaults) :
        \/ d.type \in {"List", "Set", "Dict"}
        \/ d.type = "Call" /\ d.func_type = "Name" /\ d.func_id \in {N_set, N_list, N_dict}

MutableFunctionNames == {f.name : f \in {g \in Range(Tree.FunctionDef) : HasMutableDefault(g)}}

\* C5: for every function with a mutable default, literal or constructor call, the
\* name of the function (a str) is in the S012 working list when the loop starts, and
\* the check completes with exactly one S012 diagnostic for each such function.
C5_MutableDefaultReported ==
    /\ pc = "loop" /\ i = 0 =>
          \A name \in MutableFunctionNames : Str(name) \in Range(checked_default_variables)
    /\ FileDone /\ MutableFunctionNames # {} =>
          /\ exc = "None"
          /\ Printed("S012") = Cardinality(MutableFunctionNames)

\* C5, for the checks that return: one S012 diagnostic for each function with a
\* mutable default (no check of a file with a constructor-call default returns).
C5_WhenTheCheckReturns ==
    FileDone /\ exc = "None" =>
        /\ \A c \in check_mutable_value(Tree).warnings : c.type = "str"
        /\ Printed("S012") = Cardinality(MutableFunctionNames)

\* the text of the line before its first '#', trimmed, is non-empty and ends with ';'
SemicolonBeforeComment(line) ==
    LET code == strip(SplitHashHead(line))
    IN  Len(code) > 0 /\ code[Len(code)] = ";"

\* C6: check_semicolons returns for every rstripped line (it does not raise), and what
\* it returns is truthy exactly when the part before the first '#', trimmed, is
\* non-empty and ends with ';'.
C6_SemicolonContract ==
    pc = "returned" =>
        /\ ret # "IndexError"
        /\ Truthy(ret) <=> SemicolonBeforeComment(inp)

\* C6, for the lines on which check_semicolons returns: truthy exactly when the part
\* before the first '#' ends with ';'.
C6_WhenItReturns ==
    pc = "returned" /\ ret # "IndexError" => (Truthy(ret) <=> SemicolonBeforeComment(inp))

\* C7: the check is deterministic: when the check of a file is over, what it printed
\* and how it ended are what the loop yields under every order of the three working
\* lists.
C7_Deterministic ==
    FileDone =>
        \A a \in ListsOf(check_argument_name(Tree)) :
        \A v \in ListsOf(check_variable_name(Tree)) :
        \A d \in ListsOf(check_mutable_value(Tree).warnings) :
            RunLines(path, lines, 0, a, v, d) = [prints |-> DiagsOfPath, raised |-> exc]

\* C7, for the files whose S012 candidates are all str: the order of the working
\* lists does not change what is printed.
C7_WhenCandidatesAreStr ==
    FileDone /\ (\A c \in check_mutable_value(Tree).warnings : c.type = "str") =>
        \A a \in ListsOf(check_argument_name(Tree)) :
        \A v \in ListsOf(check_variable_name(Tree)) :
        \A d \in ListsOf(check_mutable_value(Tree).warnings) :
            RunLines(path, lines, 0, a, v, d) = [prints |-> DiagsOfPath, raised |-> exc]

\* the condition of S006 on the line of 0-based index idx
PrecededByThreeBlanks(idx) ==
    /\ idx > 2
    /\ \A m \in (idx - 2)..idx : lines[m] = <<>>
    /\ lines[idx + 1] # <<>>

\* C8: when the check of a file is over, S006 has been emitted at line index idx
\* exactly when idx > 2, the lines idx-3, idx-2 and idx-1 are empty and line idx is
\* not.
C8_EmittedExactlyWhen ==
    FileDone =>
        \A n \in 1..Len(lines) :
            CountAt(n, "S006") = IF PrecededByThreeBlanks(n - 1) THEN 1 ELSE 0

\* the print of S006 for line n has been reached: the body of line n ran to its end,
\* or an exception ended it after check_semicolons
Reached006(n) ==
    \/ n <= i
    \/ pc = "raised" /\ n = i + 1 /\ check_semicolons(lines[n]) # "IndexError"

\* C8, for the lines whose S006 step the loop has reached: S006 is emitted exactly
\* when the line is preceded by three blank lines.
C8_ReachedLines ==
    InTest =>
        \A n \in 1..Len(lines) :
            CountAt(n, "S006") = IF PrecededByThreeBlanks(n - 1) /\ Reached006(n) THEN 1 ELSE 0

\* C9 as stated: a line receives at most one S010, one S011 and one S012 diagnostic.
C9_AtMostOnePerLine ==
    InTest => \A code \in TreeCodes : \A n \in 1..Len(lines) : CountAt(n, code) <= 1

\* C9 amended: a line receives one diagnostic of a code for every candidate of that
\* code that occurs in it and in no earlier line (several when several occur): never
\* more, and exactly as many once the body of the loop has run to its end on the
\* line; and every diagnostic removes one candidate from its working list.
C9_OnePerCandidateInLine ==
    InTest =>
        /\ \A code \in TreeCodes : \A n \in 1..Len(lines) :
              /\ CountAt(n, code) <= Expected(code, n)
              /\ n <= i => CountAt(n, code) = Expected(code, n)
        /\ Len(checked_args) + Printed("S010") = Cardinality(check_argument_name(Tree))
        /\ Len(checked_variables) + Printed("S011") = Cardinality(check_variable_name(Tree))
        /\ Len(checked_default_variables) + Printed("S012")
              = Cardinality(check_mutable_value(Tree).warnings)

\* C9 witness: the loop has passed a line that received two S010 diagnostics.
C9_Witness ==
    /\ InTest
    /\ \E n \in 1..Len(lines) : n <= i /\ CountAt(n, "S010") = 2 /\ Expected("S010", n) = 2

\* the snake_case pattern as the claim words it: lowercase groups split by single
\* underscores, wrapped by up to two leading and up to two trailing underscores
SnakeGroups(s) ==
    /\ Len(s) >= 1
    /\ s[1] \in LowerChars
    /\ s[Len(s)] \in LowerChars
    /\ \A k \in 1..Len(s) : s[k] \in LowerChars \cup {"_"}
    /\ \A k \in 1..(Len(s) - 1) : ~ (s[k] = "_" /\ s[k + 1] = "_")

SnakeCase(s) ==
    \E lead \in 0..2, trail \in 0..2 :
        /\ lead + trail <= Len(s)
        /\ \A k \in 1..lead : s[k] = "_"
        /\ \A k \in (Len(s) - trail + 1)..Len(s) : s[k] = "_"
        /\ SnakeGroups(SubSeq(s, lead + 1, Len(s) - trail))

\* C10 as coded: a name is in the candidate set if and only if it does not begin with
\* at most two underscores followed by a lowercase letter.
C10_AddedIffNoSnakePrefix ==
    pc \in {"returned_argument", "returned_variable"} =>
        (Str(inp) \in ret <=>
            ~ \E lead \in 0..2 :
                  /\ Len(inp) > lead
                  /\ \A k \in 1..lead : inp[k] = "_"
                  /\ inp[lead + 1] \in LowerChars)

\* C10: a parameter name or a bound identifier is in the candidate set if and only if
\* the whole name fails the snake_case pattern.
C10_AddedIffNotSnakeCase ==
    pc \in {"returned_argument", "returned_variable"} =>
        (Str(inp) \in ret <=> ~ SnakeCase(inp))

====
